---- MODULE Spec2Model ----
(***************************************************************************)
(* Model of client/executor/common/src/test_utils/linux.rs: the parser of  *)
(* /proc/self/smaps (Smaps::new), the lookups Smaps::get_map and           *)
(* Smaps::get_rss, and the entry point instance_resident_bytes.            *)
(*                                                                         *)
(* A report text is a sequence of one-character strings.  The two regular  *)
(* expressions are modelled character by character, with the semantics of  *)
(* the regex crate in multi_line mode: ^ matches at offset 0 and after a   *)
(* line feed, \s matches the line feed as well as the blank, and [^:]      *)
(* matches every character but the colon, the line feed included.          *)
(***************************************************************************)
EXTENDS Integers, Sequences, FiniteSets, TLC

VARIABLES file, pc, base_addr, output, found, ret, reads

vars == <<file, pc, base_addr, output, found, ret, reads>>

(***************************************************************************)
(* Bounds of the model.                                                    *)
(***************************************************************************)
\* The longest report, in lines.
MaxLines == 4

(***************************************************************************)
(* Characters.                                                             *)
(***************************************************************************)
LF == "\n"

HexDigits == <<"0", "1", "2", "3", "4", "5", "6", "7", "8", "9",
               "a", "b", "c", "d", "e", "f">>

\* [0-9a-f]
HexClass == {HexDigits[i] : i \in 1..16}

\* \d
DigitClass == {HexDigits[i] : i \in 1..10}

\* \s
SpaceClass == {" ", LF}

\* Every character that occurs in a report of the model.
Chars == HexClass \cup SpaceClass \cup
         {"-", ":", "k", "B", "R", "P", "s", "j", "u", "n"}

\* [^:]
NotColonClass == Chars \ {":"}

DigitVal(c) == (CHOOSE i \in 1..16 : HexDigits[i] = c) - 1

(***************************************************************************)
(* The lines a report of the model is made of.  A report is the            *)
(* concatenation of its lines, each ended by a line feed, as the kernel    *)
(* writes it.                                                              *)
(***************************************************************************)
LineText(l) ==
    CASE l = "H1" -> <<"1","0","-","2","0"," ","0",":","0">>
      [] l = "H2" -> <<"2","0","-","3","0"," ","0",":","0">>
      [] l = "H3" -> <<"2","0","-","1","0"," ","0",":","0">>
      [] l = "S4" -> <<"R","s","s",":"," ","4"," ","k","B">>
      [] l = "S8" -> <<"R","s","s",":"," ","8"," ","k","B">>
      [] l = "P4" -> <<"P","s","s",":"," ","4"," ","k","B">>
      [] l = "J"  -> <<"j","u","n","k">>

Lines == {"H1", "H2", "H3", "S4", "S8", "P4", "J"}

RECURSIVE Text(_)
Text(ls) ==
    IF ls = <<>> THEN <<>>
    ELSE LineText(Head(ls)) \o <<LF>> \o Text(Tail(ls))

RECURSIVE SeqsUpTo(_, _)
SeqsUpTo(S, n) ==
    IF n = 0 THEN {<<>>}
    ELSE LET shorter == SeqsUpTo(S, n - 1)
         IN  shorter \cup {Append(q, x) : q \in shorter, x \in S}

Reports == SeqsUpTo(Lines, MaxLines)

\* The start addresses a tracked instance's linear memory can have.
Addrs == {16, 31, 32}

(***************************************************************************)
(* Regex helpers.                                                          *)
(***************************************************************************)
\* ^ in multi_line mode, at the 1-based position i of s.
LineStart(s, i) == i = 1 \/ s[i - 1] = LF

\* The position after the longest run of characters of class C from i on.
RECURSIVE RunEnd(_, _, _)
RunEnd(s, i, C) ==
    IF i <= Len(s) /\ s[i] \in C THEN RunEnd(s, i + 1, C) ELSE i

\* usize::from_str_radix(digits, radix) and str::parse (radix 10).  The
\* numbers of the model's lines have one or two digits, far from the width of
\* usize, so the overflow error of the conversion (a panic in unwrap) cannot
\* occur.
RECURSIVE from_str_radix(_, _)
from_str_radix(digits, radix) ==
    IF digits = <<>> THEN 0
    ELSE from_str_radix(SubSeq(digits, 1, Len(digits) - 1), radix) * radix
         + DigitVal(digits[Len(digits)])

(***************************************************************************)
(* regex_start: ^([0-9a-f]+)-([0-9a-f]+)                                   *)
(***************************************************************************)
StartDash(s, i) == RunEnd(s, i, HexClass)

StartEnd(s, i) == RunEnd(s, StartDash(s, i) + 1, HexClass)

regex_start(s, i) ==
    /\ LineStart(s, i)
    /\ StartDash(s, i) > i
    /\ StartDash(s, i) <= Len(s)
    /\ s[StartDash(s, i)] = "-"
    /\ StartEnd(s, i) > StartDash(s, i) + 1

\* regex_start.find_iter(&smaps).map(|matched| matched.start()), from i on.
RECURSIVE find_iter(_, _)
find_iter(s, i) ==
    IF i > Len(s) THEN <<>>
    ELSE IF regex_start(s, i) THEN <<i>> \o find_iter(s, StartEnd(s, i))
    ELSE find_iter(s, i + 1)

\* As boundaries, without the .chain(once(smaps.len())).
boundaries_unchained(s) == find_iter(s, 1)

\* The offsets of the headers, then the end of the text.
boundaries(s) == find_iter(s, 1) \o <<Len(s) + 1>>

(***************************************************************************)
(* regex_kv: ^([^:]+):\s*(\d+) kB                                          *)
(***************************************************************************)
KvColon(s, i) == RunEnd(s, i, NotColonClass)

KvValue(s, i) == RunEnd(s, KvColon(s, i) + 1, SpaceClass)

KvUnit(s, i) == RunEnd(s, KvValue(s, i), DigitClass)

regex_kv(s, i) ==
    /\ LineStart(s, i)
    /\ KvColon(s, i) > i
    /\ KvColon(s, i) <= Len(s)
    /\ s[KvColon(s, i)] = ":"
    /\ KvUnit(s, i) > KvValue(s, i)
    /\ KvUnit(s, i) + 2 <= Len(s)
    /\ s[KvUnit(s, i)] = " "
    /\ s[KvUnit(s, i) + 1] = "k"
    /\ s[KvUnit(s, i) + 2] = "B"

\* regex_kv.captures_iter(chunk).map(|cap| (key, value)), from i on.
RECURSIVE captures_iter(_, _)
captures_iter(s, i) ==
    IF i > Len(s) THEN <<>>
    ELSE IF regex_kv(s, i)
         THEN <<[key   |-> SubSeq(s, i, KvColon(s, i) - 1),
                 value |-> from_str_radix(
                               SubSeq(s, KvValue(s, i), KvUnit(s, i) - 1), 10)]>>
              \o captures_iter(s, KvUnit(s, i) + 3)
    ELSE captures_iter(s, i + 1)

\* .collect() into a BTreeMap: a later pair replaces an earlier one of its key.
collect(pairs) ==
    [k \in {pairs[n].key : n \in 1..Len(pairs)} |->
        LET last == CHOOSE n \in 1..Len(pairs) :
                        /\ pairs[n].key = k
                        /\ \A m \in 1..Len(pairs) : pairs[m].key = k => m <= n
        IN  pairs[last].value]

(***************************************************************************)
(* Smaps::new, from the text read from /proc/self/smaps.                   *)
(***************************************************************************)
\* As Region, with the two captures taken in the other order.
Region_swapped(chunk) ==
    [start  |-> from_str_radix(
                    SubSeq(chunk, StartDash(chunk, 1) + 1, StartEnd(chunk, 1) - 1),
                    16),
     end    |-> from_str_radix(SubSeq(chunk, 1, StartDash(chunk, 1) - 1), 16),
     values |-> collect(captures_iter(chunk, 1))]

Region(chunk) ==
    [start  |-> from_str_radix(SubSeq(chunk, 1, StartDash(chunk, 1) - 1), 16),
     end    |-> from_str_radix(
                    SubSeq(chunk, StartDash(chunk, 1) + 1, StartEnd(chunk, 1) - 1),
                    16),
     values |-> collect(captures_iter(chunk, 1))]

Smaps_new(smaps) ==
    LET b == boundaries(smaps)
    IN  [w \in 1..(Len(b) - 1) |-> Region(SubSeq(smaps, b[w], b[w + 1] - 1))]

(***************************************************************************)
(* Smaps::get_map and Smaps::get_rss.                                      *)
(***************************************************************************)
\* As Contains, with the end of the range included.
Contains_closed(r, addr) == addr >= r.start /\ addr <= r.end

Contains(r, addr) == addr >= r.start /\ addr < r.end

\* .iter().find(..): the index of the first region that contains addr, 0 for
\* None.
get_map(self, addr) ==
    IF \E k \in 1..Len(self) : Contains(self[k], addr)
    THEN CHOOSE k \in 1..Len(self) :
             /\ Contains(self[k], addr)
             /\ \A m \in 1..(k - 1) : ~Contains(self[m], addr)
    ELSE 0

Rss == <<"R", "s", "s">>

None == [some |-> FALSE]

Some(v) == [some |-> TRUE, val |-> v]

\* As get_rss, with .unwrap_or(0) on the entry.
get_rss_or_zero(self, k) ==
    IF Rss \in DOMAIN self[k].values THEN Some(self[k].values[Rss]) ELSE Some(0)

\* .get("Rss").cloned() on the map get_map returned.
get_rss(self, k) ==
    IF Rss \in DOMAIN self[k].values THEN Some(self[k].values[Rss]) ELSE None

(***************************************************************************)
(* The state: the report the kernel serves, and one caller of              *)
(* instance_resident_bytes.                                                *)
(*   file      the lines of /proc/self/smaps as they are now               *)
(*   pc        the caller's position in instance_resident_bytes            *)
(*   base_addr the local base_addr                                         *)
(*   output    the Smaps value built by Smaps::new, <<>> when none is held *)
(*   found     the index get_map found in output, 0 for none               *)
(*   ret       the outcome of the call                                     *)
(*   reads     the reads of /proc/self/smaps made by the call so far       *)
(***************************************************************************)
NoRet == [tag |-> "none"]

Value(v) == [tag |-> "value", val |-> v]

Panic(site) == [tag |-> "panic", at |-> site]

Init ==
    /\ file \in Reports
    /\ pc = "idle"
    /\ base_addr = 0
    /\ output = <<>>
    /\ found = 0
    /\ ret = NoRet
    /\ reads = 0

\* The kernel rewrites the report: a mapping's line appears or the last one
\* goes.  After Smaps::new has read the report the call no longer looks at
\* it, so a later change is taken once the call is over.
WriteReport ==
    /\ pc \in {"idle", "have_addr"}
    /\ \/ /\ Len(file) < MaxLines
          /\ \E l \in Lines : file' = Append(file, l)
       \/ /\ file # <<>>
          /\ file' = SubSeq(file, 1, Len(file) - 1)
    /\ UNCHANGED <<pc, base_addr, output, found, ret, reads>>

\* let base_addr = instance.linear_memory_range().unwrap().start;
LinearMemoryRange(range) ==
    /\ pc = "idle"
    /\ IF range.some
       THEN /\ base_addr' = range.val
            /\ pc' = "have_addr"
            /\ ret' = ret
       ELSE /\ base_addr' = base_addr
            /\ pc' = "panicked"
            /\ ret' = Panic("linear_memory_range")
    /\ UNCHANGED <<file, output, found, reads>>

\* Smaps::new(): one read_to_string, then the parse.
SmapsNew ==
    /\ pc = "have_addr"
    /\ reads' = reads + 1
    /\ output' = Smaps_new(Text(file))
    /\ pc' = "have_smaps"
    /\ UNCHANGED <<file, base_addr, found, ret>>

\* As GetRss, with get_map's .unwrap() replaced by a default of 0.
GetRss_default ==
    /\ pc = "have_smaps"
    /\ found' = get_map(output, base_addr)
    /\ IF found' = 0
       THEN /\ pc' = "returned"
            /\ ret' = Value(0)
       ELSE IF get_rss(output, found').some
       THEN /\ pc' = "returned"
            /\ ret' = Value(get_rss(output, found').val)
       ELSE /\ pc' = "panicked"
            /\ ret' = Panic("failed to get rss")
    /\ UNCHANGED <<file, base_addr, output, reads>>

\* .get_rss(base_addr).expect("failed to get rss")
GetRss ==
    /\ pc = "have_smaps"
    /\ found' = get_map(output, base_addr)
    /\ IF found' = 0
       THEN /\ pc' = "panicked"
            /\ ret' = Panic("get_map")
       ELSE IF get_rss(output, found').some
       THEN /\ pc' = "returned"
            /\ ret' = Value(get_rss(output, found').val)
       ELSE /\ pc' = "panicked"
            /\ ret' = Panic("failed to get rss")
    /\ UNCHANGED <<file, base_addr, output, reads>>

\* As Return, with the Smaps value kept for the next call.
Return_cached ==
    /\ pc \in {"returned", "panicked"}
    /\ pc' = "idle"
    /\ base_addr' = 0
    /\ found' = 0
    /\ ret' = NoRet
    /\ reads' = 0
    /\ UNCHANGED <<file, output>>

\* The call is over: its locals and the Smaps value are dropped.
Return ==
    /\ pc \in {"returned", "panicked"}
    /\ pc' = "idle"
    /\ base_addr' = 0
    /\ output' = <<>>
    /\ found' = 0
    /\ ret' = NoRet
    /\ reads' = 0
    /\ UNCHANGED file

Next ==
    \/ WriteReport
    \/ \E range \in {None} \cup {Some(a) : a \in Addrs} : LinearMemoryRange(range)
    \/ SmapsNew
    \/ GetRss
    \/ Return

Spec == Init /\ [][Next]_vars

(***************************************************************************)
(* What the lines of a report say, line by line.  The properties below     *)
(* compare the parser's result with these readings.                        *)
(***************************************************************************)
Headers == {"H1", "H2", "H3"}

StatLines == {"S4", "S8", "P4"}

\* The two base-16 numbers of a header line.
HdrStart(l) == CASE l = "H1" -> 16 [] l = "H2" -> 32 [] l = "H3" -> 32

HdrEnd(l) == CASE l = "H1" -> 32 [] l = "H2" -> 48 [] l = "H3" -> 16

\* The name and the value of a statistic line.
StatName(l) == CASE l \in {"S4", "S8"} -> Rss [] l = "P4" -> <<"P", "s", "s">>

StatVal(l) == CASE l \in {"S4", "P4"} -> 4 [] l = "S8" -> 8

\* The positions of the header lines of a report, in order.
RECURSIVE HeaderIdx(_, _)
HeaderIdx(ls, i) ==
    IF i > Len(ls) THEN <<>>
    ELSE IF ls[i] \in Headers THEN <<i>> \o HeaderIdx(ls, i + 1)
    ELSE HeaderIdx(ls, i + 1)

\* The header line of the k-th block and the lines that follow it in the block.
BlockHeader(ls, k) == ls[HeaderIdx(ls, 1)[k]]

BlockBody(ls, k) ==
    LET h == HeaderIdx(ls, 1)
    IN  SubSeq(ls, h[k] + 1, (IF k < Len(h) THEN h[k + 1] ELSE Len(ls) + 1) - 1)

\* The positions, in a block's body, of the statistic lines of a name.
StatPos(body, name) ==
    {i \in 1..Len(body) : body[i] \in StatLines /\ StatName(body[i]) = name}

StatNames(body) ==
    {StatName(body[i]) : i \in {j \in 1..Len(body) : body[j] \in StatLines}}

Max(S) == CHOOSE x \in S : \A y \in S : y <= x

\* Smaps::new has returned in the current call: output is the parse of file.
Parsed == pc \in {"have_smaps", "returned", "panicked"} /\ reads = 1

\* The lookup of the current call has been made.
Queried == pc \in {"returned", "panicked"} /\ reads = 1

(***************************************************************************)
(* C1                                                                      *)
(***************************************************************************)
\* C1: when the base address lies in a region whose block carries the
\* statistic Rss of N kB, instance_resident_bytes returns N * 1024.
C1_ResidentBytesTimes1024 ==
    (pc = "returned" /\ found # 0) =>
        \A i \in StatPos(BlockBody(file, found), Rss) :
            (\A j \in StatPos(BlockBody(file, found), Rss) :
                StatVal(BlockBody(file, found)[j]) = StatVal(BlockBody(file, found)[i]))
            => ret = Value(StatVal(BlockBody(file, found)[i]) * 1024)

(***************************************************************************)
(* C2                                                                      *)
(***************************************************************************)
\* C2: parsing a non-empty report without any header line never completes
\* with a report of zero regions.
C2_NoHeaderNeverParses ==
    ~(Parsed /\ file # <<>> /\ HeaderIdx(file, 1) = <<>>)

(***************************************************************************)
(* C3                                                                      *)
(***************************************************************************)
\* The lookup returns the first record with start <= a < end, none if there
\* is none.
C3_FirstMatch ==
    /\ found \in 0..Len(output)
    /\ found # 0 => /\ output[found].start <= base_addr
                    /\ base_addr < output[found].end
    /\ \A m \in 1..Len(output) :
           (output[m].start <= base_addr /\ base_addr < output[m].end)
               => (found # 0 /\ found <= m)

\* An address equal to a record's end is never attributed to that record.
C3_EndExcluded ==
    \A k \in 1..Len(output) : base_addr = output[k].end => found # k

\* C3 as stated: the lookup returns the first record with start <= a < end;
\* an address equal to a record's end is never attributed to it, and an
\* address equal to a record's start is attributed to it whenever no earlier
\* record contains it.
C3_LookupAsStated ==
    Queried =>
        /\ C3_FirstMatch
        /\ C3_EndExcluded
        /\ \A k \in 1..Len(output) :
               (/\ base_addr = output[k].start
                /\ \A m \in 1..(k - 1) :
                       ~(output[m].start <= base_addr /\ base_addr < output[m].end))
               => found = k

\* C3 amended: the lookup returns the first record with start <= a < end; an
\* address equal to a record's end is never attributed to it, and an address
\* equal to a record's start is attributed to it whenever no earlier record
\* contains it and the record is not empty (start < end).
C3_Lookup ==
    Queried =>
        /\ C3_FirstMatch
        /\ C3_EndExcluded
        /\ \A k \in 1..Len(output) :
               (/\ base_addr = output[k].start
                /\ output[k].start < output[k].end
                /\ \A m \in 1..(k - 1) :
                       ~(output[m].start <= base_addr /\ base_addr < output[m].end))
               => found = k

\* The address is the end of the first record and the start of the second,
\* and a third record that contains it too comes later: the second is found.
C3_Witness ==
    /\ Queried
    /\ Len(output) = 3
    /\ base_addr = output[1].end
    /\ base_addr = output[2].start
    /\ found = 2
    /\ output[3].start <= base_addr /\ base_addr < output[3].end

(***************************************************************************)
(* C4                                                                      *)
(***************************************************************************)
\* C4: the parser outputs one record per header line, in the order of the
\* headers, each with the two base-16 numbers of its own header; a block
\* without statistic lines yields a record with an empty map, the text before
\* the first header yields no record and the empty text yields no record.
C4_OneRecordPerHeader ==
    Parsed =>
        /\ Len(output) = Len(HeaderIdx(file, 1))
        /\ \A k \in 1..Len(output) :
               /\ output[k].start = HdrStart(BlockHeader(file, k))
               /\ output[k].end = HdrEnd(BlockHeader(file, k))
               /\ StatNames(BlockBody(file, k)) = {}
                      => DOMAIN output[k].values = {}
        /\ file = <<>> => output = <<>>

\* A report that begins with a statistic line that belongs to no header, then
\* a header without statistic lines, then another header.
C4_Witness ==
    /\ Parsed
    /\ file # <<>>
    /\ file[1] \in StatLines
    /\ Len(output) = 2
    /\ BlockBody(file, 1) = <<>>
    /\ output[1].start # output[2].start

(***************************************************************************)
(* C5                                                                      *)
(***************************************************************************)
\* C5: when no parsed region contains the address, the query fails in
\* get_map and returns no value; this failure is another outcome than the
\* one of a region that exists and has no Rss entry.
C5_AddressNotMapped ==
    Queried =>
        /\ (\A k \in 1..Len(HeaderIdx(file, 1)) :
                ~(/\ HdrStart(BlockHeader(file, k)) <= base_addr
                  /\ base_addr < HdrEnd(BlockHeader(file, k))))
           => (pc = "panicked" /\ ret = Panic("get_map") /\ found = 0)
        /\ ret = Panic("failed to get rss") => found # 0

\* The address falls after the only region of a report.
C5_Witness ==
    /\ Queried
    /\ Len(output) = 1
    /\ output[1].end <= base_addr
    /\ ret = Panic("get_map")

(***************************************************************************)
(* C6                                                                      *)
(***************************************************************************)
\* C6: for a region whose block has no Rss statistic line, get_rss yields
\* None and the call fails in expect; it never yields a value.
C6_StatisticAbsent ==
    (Queried /\ found # 0 /\ StatPos(BlockBody(file, found), Rss) = {}) =>
        /\ get_rss(output, found) = None
        /\ pc = "panicked"
        /\ ret = Panic("failed to get rss")

\* The address lies in a region whose block is its header line alone.
C6_Witness ==
    /\ Queried
    /\ found # 0
    /\ BlockBody(file, found) = <<>>
    /\ DOMAIN output[found].values = {}
    /\ ret = Panic("failed to get rss")

(***************************************************************************)
(* C7                                                                      *)
(***************************************************************************)
\* C7: the map of a block has an entry name -> value for exactly the
\* statistic lines of the block, under the name written before the colon of
\* the line; every other line adds no entry and changes no other line's key
\* or value.
C7_MapIsTheStatLines ==
    Parsed =>
        \A k \in 1..Len(output) :
            /\ DOMAIN output[k].values = StatNames(BlockBody(file, k))
            /\ \A name \in StatNames(BlockBody(file, k)) :
                   \E i \in StatPos(BlockBody(file, k), name) :
                       output[k].values[name] = StatVal(BlockBody(file, k)[i])

(***************************************************************************)
(* C8                                                                      *)
(***************************************************************************)
\* C8 as stated: every record of every parsed report has start <= end.
C8_StartLeEndAsStated ==
    Parsed => \A k \in 1..Len(output) : output[k].start <= output[k].end

\* C8 amended: every record of a parsed report has start <= end when, in
\* every header of the text, the first number is at most the second; the
\* parser does not check the order of the two numbers.
C8_StartLeEnd ==
    (/\ Parsed
     /\ \A i \in 1..Len(file) :
            file[i] \in Headers => HdrStart(file[i]) <= HdrEnd(file[i]))
    => \A k \in 1..Len(output) : output[k].start <= output[k].end

\* A parsed report of two regions whose headers are in order.
C8_Witness ==
    /\ Parsed
    /\ Len(output) = 2
    /\ \A i \in 1..Len(file) : file[i] # "H3"
    /\ output[1].start < output[1].end
    /\ output[2].start < output[2].end

(***************************************************************************)
(* C9                                                                      *)
(***************************************************************************)
\* The steps of a call, in their order.
C9_Steps ==
    {<<"idle", "have_addr">>, <<"idle", "panicked">>,
     <<"have_addr", "have_smaps">>,
     <<"have_smaps", "returned">>, <<"have_smaps", "panicked">>,
     <<"returned", "idle">>, <<"panicked", "idle">>}

C9_State ==
    /\ pc \in {"idle", "have_addr"} => (reads = 0 /\ output = <<>>)
    /\ pc \in {"have_smaps", "returned"} => reads = 1
    /\ pc = "panicked" =>
           IF ret = Panic("linear_memory_range")
           THEN reads = 0 /\ output = <<>>
           ELSE reads = 1
    /\ pc = "returned" =>
           /\ found # 0
           /\ \E i \in StatPos(BlockBody(file, found), Rss) :
                  ret = Value(StatVal(BlockBody(file, found)[i]))

C9_Step ==
    /\ pc' # pc => <<pc, pc'>> \in C9_Steps
    /\ reads' > reads => (pc = "have_addr" /\ pc' = "have_smaps")
    /\ pc' = "panicked" => ret' # NoRet

\* C9: a call obtains the base address, then reads the report exactly once,
\* then makes one query; without a range it fails before the report is read;
\* no failed step is retried; no parsed data survives the call, and a value
\* returned is one of the report as it was read by that call.
C9_CallOrder == [](C9_State) /\ [][C9_Step]_vars

\* A call has returned a value after one read of the report.
C9_Witness ==
    /\ pc = "returned"
    /\ reads = 1
    /\ ret = Value(8)
    /\ output # <<>>

(***************************************************************************)
(* C10                                                                     *)
(***************************************************************************)
\* C10: when a name occurs in two or more statistic lines of a block, the
\* block's map has one entry for the name, with the value of the last of
\* them.
C10_LastOccurrenceWins ==
    Parsed =>
        \A k \in 1..Len(output) :
            \A name \in StatNames(BlockBody(file, k)) :
                Cardinality(StatPos(BlockBody(file, k), name)) >= 2 =>
                    /\ name \in DOMAIN output[k].values
                    /\ output[k].values[name] =
                           StatVal(BlockBody(file, k)[
                               Max(StatPos(BlockBody(file, k), name))])

====
